---- MODULE Spec2Model ----
(***************************************************************************)
(* State-machine model of CSpotPlayer (spotupnp/src/spotify.cpp): the      *)
(* streamer queue, audio delivery (writePCM), track-boundary handling      *)
(* (trackHandler), the protocol event handler (eventHandler), the renderer *)
(* bridge (notify), disconnect, and the lifecycle task / destructor.       *)
(*                                                                         *)
(* Handlers are atomic actions.  Sessions (HTTPstreamer objects held by    *)
(* shared_ptr) live in the heap `sessions`, keyed by their index; the      *)
(* queue `streamers` and the pointer `player` hold indices.  A session     *)
(* that is referenced by neither is freed.  The stream URL of a session    *)
(* is identified with its index.                                           *)
(***************************************************************************)
EXTENDS Integers, Sequences, FiniteSets, TLC

VARIABLES
    state,              \* std::atomic<states> state
    isPaused,           \* std::atomic<bool> isPaused
    isRunning,          \* std::atomic<bool> isRunning
    playlistEnd,        \* std::atomic<bool> playlistEnd
    notify,             \* std::atomic<bool> notify (suppression latch)
    flushed,            \* std::atomic<bool> flushed
    streamTrackUnique,  \* tracked key
    volume,
    startOffset,
    lastTimeStamp,
    lastPosition,
    index,              \* next session index
    streamers,          \* std::deque<shared_ptr<HTTPstreamer>>, front = 1
    sessions,           \* heap of live HTTPstreamer objects
    player,             \* std::shared_ptr<HTTPstreamer> player
    flow,               \* bool flow (fixed at construction)
    flowMarkers,        \* std::deque<uint32_t>, front = 1
    flowPlayedTracks,   \* std::unordered_set<std::string>
    flowTrackInfo,      \* cspot::TrackInfo cached by TRACK_INFO
    validPlayers,       \* TRUE iff `this` is in the static registry
    spirc,              \* TRUE iff the unique_ptr spirc is set
    zeroConf,           \* runTask local
    clientConnected,    \* semaphore count
    rtpc,               \* position of runTask
    dpc,                \* position of ~CSpotPlayer
    mutex,              \* thread that holds playerMutex, or "free"
    wpc,                \* position of the writePCM call in progress
    crashed,            \* the process died on a null dereference
    flowArrived,        \* history: ids of the flow-mode tracks since the last reset
    out,                \* commands / notifications issued by the last handler
    last                \* the last handler that ran, its input and return value

ctlVars == <<isPaused, playlistEnd, notify, flushed, streamTrackUnique, volume,
             startOffset, lastTimeStamp, lastPosition, index, streamers, sessions,
             player, flowMarkers, flowPlayedTracks, flowTrackInfo>>

lifeVars == <<state, isRunning, validPlayers, spirc, zeroConf, clientConnected,
              rtpc, dpc, mutex, wpc>>

vars == <<state, isPaused, isRunning, playlistEnd, notify, flushed,
          streamTrackUnique, volume, startOffset, lastTimeStamp, lastPosition,
          index, streamers, sessions, player, flow, flowMarkers,
          flowPlayedTracks, flowTrackInfo, validPlayers, spirc, zeroConf,
          clientConnected, rtpc, dpc, mutex, wpc, crashed, flowArrived, out,
          last>>

(***************************************************************************)
(* Bounds of the model.                                                    *)
(***************************************************************************)
MaxSessions == 3        \* sessions created in one run (cap on index)
MaxMarkers == 2         \* cap on the length of flowMarkers
MaxNow == 6000          \* cap on the clock readings

(***************************************************************************)
(* Inputs.                                                                 *)
(***************************************************************************)
NoKey == ""
Keys == {"k1", "k2"}
\* spirc->getTrackQueue()->getTrackInfo(trackUnique): the queue holds two
\* songs, which a repeating playlist delivers in turn
getTrackInfo(k) ==
    IF k = "k1" THEN [trackId |-> "A", duration |-> 200000]
    ELSE [trackId |-> "B", duration |-> 180000]
TrackInfos == {getTrackInfo("k2")}
\* a default-constructed cspot::TrackInfo
NoTrackInfo == [trackId |-> "", duration |-> 0]
ByteCounts == {512}
StartOffsets == {5000}
SeekPositions == {30000}
Volumes == {50}
Positions == {0, 5001, 5002, 200000}
Elapsed == {0, 6000}
\* values an uninitialised startOffset / lastPosition may hold
UninitOffsets == {0, 5000}
UninitPositions == {0, 77}

NoPlayer == -1
ResyncThreshold == 5000
MaxStreamers == 2

\* A uint32_t is held as the int32_t of the same bits (a value of 2^31 or
\* more is held as the negative number congruent to it), so that sums and
\* differences wrap as in the code; U32Geq is the unsigned comparison.
U32Geq(a, b) == IF (a < 0) = (b < 0) THEN a >= b ELSE a < 0

\* x | 0x01
OrOne(x) == IF x % 2 = 0 THEN x + 1 ELSE x

(***************************************************************************)
(* Renderer commands (shadowRequest) and protocol-client calls (spirc->).  *)
(***************************************************************************)
Cmd(c, a, d, p) == [c |-> c, a |-> a, d |-> d, p |-> p]
SpotStop == Cmd("STOP", 0, 0, 0)
SpotPlay == Cmd("PLAY", 0, 0, 0)
SpotPause == Cmd("PAUSE", 0, 0, 0)
SpotLoad(url, duration, position) == Cmd("LOAD", url, duration, position)
SpotVolume(v) == Cmd("VOLUME", v, 0, 0)
SetDraining(idx) == Cmd("DRAINING", idx, 0, 0)
Feed(idx, bytes) == Cmd("feedPCMFrames", idx, bytes, 0)
SetRemoteVolume(v) == Cmd("setRemoteVolume", v, 0, 0)
UpdatePositionMs(p) == Cmd("updatePositionMs", p, 0, 0)
ReachedPlayback == Cmd("notifyAudioReachedPlayback", 0, 0, 0)
AudioEnded == Cmd("notifyAudioEnded", 0, 0, 0)
SetPause(b) == Cmd("setPause", IF b THEN 1 ELSE 0, 0, 0)

Op(op, key, num, ret) == [op |-> op, key |-> key, num |-> num, ret |-> ret]

(***************************************************************************)
(* Deque and heap helpers.                                                 *)
(***************************************************************************)
PushFront(q, x) == <<x>> \o q
Front(q) == q[1]
Back(q) == q[Len(q)]
PopBack(q) == SubSeq(q, 1, Len(q) - 1)
Range(q) == {q[i] : i \in 1..Len(q)}

\* shared_ptr ownership: a session lives while the queue or player holds it
Live(q, p) == Range(q) \cup (IF p = NoPlayer THEN {} ELSE {p})
Collect(h, q, p) == [i \in Live(q, p) |-> h[i]]

NewStreamer(key, info, offset) ==
    [trackUnique |-> key, trackInfo |-> info, offset |-> offset]

TypeOK ==
    /\ state \in {"ABORT", "LINKED", "DISCO"}
    /\ isPaused \in BOOLEAN /\ isRunning \in BOOLEAN /\ playlistEnd \in BOOLEAN
    /\ notify \in BOOLEAN /\ flushed \in BOOLEAN
    /\ streamTrackUnique \in Keys \cup {NoKey}
    /\ index \in 0..(MaxSessions + 1)
    /\ player \in {NoPlayer} \cup 0..MaxSessions
    /\ DOMAIN sessions = Live(streamers, player)
    /\ flow \in BOOLEAN
    /\ mutex \in {"free", "data", "event"}
    /\ wpc \in {"idle", "checked"}

Init ==
    /\ state \in {"ABORT", "LINKED", "DISCO"}   \* not initialised by the constructor
    /\ isPaused = TRUE
    /\ isRunning = FALSE
    /\ playlistEnd = FALSE
    /\ notify = TRUE
    /\ flushed = FALSE
    /\ streamTrackUnique = NoKey
    /\ volume = 0
    /\ startOffset \in UninitOffsets            \* not initialised by the constructor
    /\ lastTimeStamp = 0
    /\ lastPosition \in UninitPositions         \* not initialised by the constructor
    /\ index = 0
    /\ streamers = <<>>
    /\ sessions = Collect(<<>>, <<>>, NoPlayer)
    /\ player = NoPlayer
    /\ flow \in BOOLEAN
    /\ flowMarkers = <<>>
    /\ flowPlayedTracks = {}
    /\ flowTrackInfo = NoTrackInfo
    /\ validPlayers = TRUE
    /\ spirc = FALSE
    /\ zeroConf = FALSE
    /\ clientConnected = 0
    /\ rtpc = "start"
    /\ dpc = "alive"
    /\ mutex = "free"
    /\ wpc = "idle"
    /\ crashed = FALSE
    /\ flowArrived = {}
    /\ out = <<>>
    /\ last = Op("new", NoKey, 0, 0)

(***************************************************************************)
(* trackHandler (lines 275-342), called by writePCM with playerMutex held. *)
(* The operators give the value of each field after the call.              *)
(***************************************************************************)
\* line 288: a new streamer is created, unless in flow mode with a session
CreatesStreamer == streamers = <<>> \/ ~flow

\* line 290: streamers.empty() ? -startOffset : 0
SeedOffset == IF streamers = <<>> THEN -startOffset ELSE 0

\* line 323: flowPlayedTracks.count(newTrackInfo.trackId) > 0
LoopDetected(info) == info.trackId \in flowPlayedTracks

\* lines 279-282: the front streamer is switched to DRAINING except in flow
\* mode (HTTPstreamer::state belongs to the streamer: the write is a command)
DrainFront ==
    IF streamers # <<>> /\ ~flow THEN <<SetDraining(Front(streamers))>> ELSE <<>>

\* mutant: the offset is left out of the duration
LoadDurationBare(info, offset) == info.duration

\* lines 301-310: duration handed to the renderer in LOAD
LoadDuration(info, offset) ==
    IF flow THEN info.duration ELSE info.duration + offset

\* mutant: the first marker is the duration adjusted by the offset
TrackMarkersAdjusted(info) ==
    IF CreatesStreamer
    THEN IF flow THEN PushFront(flowMarkers, info.duration + SeedOffset)
                 ELSE flowMarkers
    ELSE IF LoopDetected(info)
         THEN <<info.duration>>
         ELSE PushFront(flowMarkers, Front(flowMarkers) + info.duration)

\* lines 302, 327-331: flowMarkers after the call
TrackMarkers(info) ==
    IF CreatesStreamer
    THEN IF flow THEN PushFront(flowMarkers, info.duration) ELSE flowMarkers
    ELSE IF LoopDetected(info)
         THEN <<info.duration>>
         ELSE PushFront(flowMarkers, Front(flowMarkers) + info.duration)

\* lines 328, 335: flowPlayedTracks after the call
TrackPlayed(info) ==
    IF CreatesStreamer
    THEN flowPlayedTracks
    ELSE (IF LoopDetected(info) THEN {} ELSE flowPlayedTracks) \cup {info.trackId}

\* lines 313-316: renderer commands of the call
TrackCommands(info) ==
    IF CreatesStreamer
    THEN DrainFront
         \o <<SpotLoad(index, LoadDuration(info, SeedOffset), -SeedOffset)>>
         \o (IF ~isPaused THEN <<SpotPlay>> ELSE <<>>)
    ELSE <<>>

\* lines 289, 318, 340: the heap after the call
TrackSessions(key, info) ==
    IF CreatesStreamer
    THEN [i \in DOMAIN sessions \cup {index} |->
            IF i = index THEN NewStreamer(key, info, SeedOffset) ELSE sessions[i]]
    ELSE IF player # NoPlayer
         THEN [sessions EXCEPT ![player].trackInfo = info]
         ELSE sessions

\* line 340 dereferences player: undefined when it is null
TrackDerefsNull == ~CreatesStreamer /\ player = NoPlayer

(***************************************************************************)
(* writePCM (lines 187-227).                                               *)
(***************************************************************************)
\* line 190
FastReject == ~isRunning \/ isPaused

\* mutant: the registry is not consulted
NotLiveSkipped == FALSE

\* lines 195-201
NotLive == ~validPlayers

\* mutant: the test lets a third streamer in
QueueFullOffByOne == Len(streamers) > MaxStreamers

\* line 211: we can only accept 2 players
QueueFull == Len(streamers) > MaxStreamers - 1

\* mutant: the flushed latch survives a new key
NewKeyLatchKept == flushed

\* line 214: flushed = false
NewKeyLatch == FALSE

\* the pieces of writePCM that follow the new-key test
WritePCMNewKey(bytes, key, fed, dies) ==
    LET info == getTrackInfo(key)
        q == IF CreatesStreamer THEN PushFront(streamers, index) ELSE streamers
        cmds == TrackCommands(info)
    IN  /\ flushed' = NewKeyLatch
        /\ streamTrackUnique' = key
        /\ streamers' = q
        /\ sessions' = TrackSessions(key, info)
        /\ index' = IF CreatesStreamer THEN index + 1 ELSE index
        /\ flowMarkers' = TrackMarkers(info)
        /\ flowPlayedTracks' = TrackPlayed(info)
        /\ flowArrived' = IF ~flow THEN {}
                          ELSE IF CreatesStreamer \/ info.trackId \in flowArrived
                          THEN {info.trackId}
                          ELSE flowArrived \cup {info.trackId}
        /\ IF TrackDerefsNull /\ dies
           THEN /\ crashed' = TRUE
                /\ out' = cmds
                /\ last' = Op("writePCM", key, bytes, 0)
           ELSE /\ crashed' = FALSE
                /\ IF NewKeyLatch
                   THEN /\ out' = cmds
                        /\ last' = Op("writePCM", key, bytes, bytes)
                   ELSE /\ out' = cmds \o (IF fed THEN <<Feed(Front(q), bytes)>>
                                                  ELSE <<>>)
                        /\ last' = Op("writePCM", key, bytes,
                                      IF fed THEN bytes ELSE 0)
        /\ UNCHANGED <<isPaused, playlistEnd, notify, volume, startOffset,
                       lastTimeStamp, lastPosition, player, flowTrackInfo>>

\* mutant: the flushed latch is not looked at (line 222)
WritePCMSameKeyFeeds(bytes, key, fed) ==
    /\ IF streamers # <<>> /\ fed
       THEN /\ out' = <<Feed(Front(streamers), bytes)>>
            /\ last' = Op("writePCM", key, bytes, bytes)
       ELSE /\ out' = <<>>
            /\ last' = Op("writePCM", key, bytes, 0)
    /\ UNCHANGED <<ctlVars, crashed, flowArrived>>

\* lines 222-226: the delivery carries the tracked key
WritePCMSameKey(bytes, key, fed) ==
    /\ IF flushed
       THEN /\ out' = <<>>
            /\ last' = Op("writePCM", key, bytes, bytes)
       ELSE IF streamers # <<>> /\ fed
       THEN /\ out' = <<Feed(Front(streamers), bytes)>>
            /\ last' = Op("writePCM", key, bytes, bytes)
       ELSE /\ out' = <<>>
            /\ last' = Op("writePCM", key, bytes, 0)
    /\ UNCHANGED <<ctlVars, crashed, flowArrived>>

\* the data callback is installed while spirc exists and is cleared by the
\* destructor (line 172)
WritePCMEnabled ==
    /\ spirc /\ dpc \in {"alive", "unregistered", "pending"}
    /\ ~crashed

\* lines 190-201: return 0 before playerMutex is taken
WritePCMReject(bytes, key) ==
    /\ out' = <<>>
    /\ last' = Op("writePCM", key, bytes, 0)
    /\ UNCHANGED <<ctlVars, crashed, flowArrived>>

\* lines 209-226: the part of writePCM that runs with playerMutex held
WritePCMLocked(bytes, key, fed, dies) ==
    IF streamTrackUnique # key
    THEN IF QueueFull
         THEN /\ ~dies
              /\ WritePCMReject(bytes, key)
         ELSE /\ CreatesStreamer => index < MaxSessions
              /\ flow => Len(flowMarkers) < MaxMarkers
              /\ dies => TrackDerefsNull
              /\ WritePCMNewKey(bytes, key, fed, dies)
    ELSE /\ ~dies
         /\ WritePCMSameKey(bytes, key, fed)

\* lines 187-227, the call as one step
WritePCM(bytes, key, fed, dies) ==
    /\ WritePCMEnabled
    /\ IF FastReject \/ NotLive
       THEN WritePCMReject(bytes, key)
       ELSE WritePCMLocked(bytes, key, fed, dies)
    /\ UNCHANGED <<lifeVars, flow>>

(***************************************************************************)
(* disconnect (lines 598-606).                                             *)
(***************************************************************************)
DisconnectState(abort) == IF abort THEN "ABORT" ELSE "DISCO"

\* mutant: player.reset() is forgotten
DisconnectKeepsPlayer(abort) ==
    /\ state' = DisconnectState(abort)
    /\ out' = <<SpotStop>>
    /\ streamers' = <<>>
    /\ player' = player
    /\ sessions' = Collect(sessions, <<>>, player)

Disconnect(abort) ==
    /\ state' = DisconnectState(abort)
    /\ out' = <<SpotStop>>
    /\ streamers' = <<>>
    /\ player' = NoPlayer
    /\ sessions' = Collect(sessions, <<>>, NoPlayer)

(***************************************************************************)
(* eventHandler (lines 344-493).  Events arrive while spirc exists.        *)
(***************************************************************************)
EventEnabled == spirc /\ ~crashed /\ dpc # "freed"

\* player->trackUnique; reading through a null player is undefined and
\* yields `garbage`
PlayerKey(garbage) ==
    IF player = NoPlayer THEN garbage ELSE sessions[player].trackUnique

\* mutant: the PLAYBACK_START is ignored when the keys are equal
SmartFlushAbsorbsSameKey(garbage) ==
    flushed /\ streamTrackUnique = PlayerKey(garbage)

\* line 359
SmartFlushAbsorbs(garbage) == flushed /\ streamTrackUnique # PlayerKey(garbage)

\* mutant: the reset forgets the flow markers
FullResetKeepsMarkers(position) ==
    /\ out' = <<SpotStop, SetRemoteVolume(volume)>>
    /\ startOffset' = position
    /\ streamTrackUnique' = NoKey
    /\ streamers' = <<>>
    /\ player' = NoPlayer
    /\ sessions' = Collect(sessions, <<>>, NoPlayer)
    /\ playlistEnd' = FALSE
    /\ flowPlayedTracks' = {}
    /\ flowArrived' = {}
    /\ UNCHANGED <<isPaused, notify, flushed, volume, lastTimeStamp, lastPosition,
                   index, flowTrackInfo, crashed, flowMarkers>>

\* lines 366-394
FullReset(position) ==
    /\ out' = <<SpotStop, SetRemoteVolume(volume)>>
    /\ startOffset' = position
    /\ streamTrackUnique' = NoKey
    /\ streamers' = <<>>
    /\ player' = NoPlayer
    /\ sessions' = Collect(sessions, <<>>, NoPlayer)
    /\ playlistEnd' = FALSE
    /\ flowMarkers' = <<>>
    /\ flowPlayedTracks' = {}
    /\ flowArrived' = {}
    /\ UNCHANGED <<isPaused, notify, flushed, volume, lastTimeStamp, lastPosition,
                   index, flowTrackInfo, crashed>>

\* lines 359-364
Absorb(garbage) ==
    /\ out' = <<>>
    /\ streamers' = <<>>
    /\ streamTrackUnique' = PlayerKey(garbage)
    /\ sessions' = Collect(sessions, <<>>, player)
    /\ UNCHANGED <<isPaused, playlistEnd, notify, flushed, volume, startOffset,
                   lastTimeStamp, lastPosition, index, player, flowMarkers,
                   flowPlayedTracks, flowTrackInfo, crashed, flowArrived>>

PlaybackStart(position, garbage, dies) ==
    /\ EventEnabled
    /\ (flushed /\ player = NoPlayer) \/ (garbage = NoKey /\ ~dies)
    /\ last' = Op("PLAYBACK_START", NoKey, position, 0)
    /\ IF dies
       THEN /\ crashed' = TRUE
            /\ out' = <<>>
            /\ UNCHANGED <<ctlVars, flowArrived>>
       ELSE IF SmartFlushAbsorbs(garbage)
       THEN Absorb(garbage)
       ELSE FullReset(position)
    /\ UNCHANGED <<lifeVars, flow>>

\* lines 396-404
PlayPause(paused) ==
    /\ EventEnabled
    /\ last' = Op("PLAY_PAUSE", NoKey, IF paused THEN 1 ELSE 0, 0)
    /\ isPaused' = paused
    /\ out' = IF player # NoPlayer \/ streamers # <<>>
              THEN <<IF paused THEN SpotPause ELSE SpotPlay>>
              ELSE <<>>
    /\ UNCHANGED <<playlistEnd, notify, flushed, streamTrackUnique, volume,
                   startOffset, lastTimeStamp, lastPosition, index, streamers,
                   sessions, player, flowMarkers, flowPlayedTracks, flowTrackInfo,
                   crashed, flowArrived, lifeVars, flow>>

\* lines 405-413
Flush ==
    /\ EventEnabled
    /\ last' = Op("FLUSH", NoKey, 0, 0)
    /\ flushed' = TRUE
    /\ out' = <<>>
    /\ UNCHANGED <<isPaused, playlistEnd, notify, streamTrackUnique, volume,
                   startOffset, lastTimeStamp, lastPosition, index, streamers,
                   sessions, player, flowMarkers, flowPlayedTracks, flowTrackInfo,
                   crashed, flowArrived, lifeVars, flow>>

\* lines 414-420
NextPrev ==
    /\ EventEnabled
    /\ last' = Op("NEXT", NoKey, 0, 0)
    /\ out' = <<SpotStop>>
    /\ UNCHANGED <<ctlVars, crashed, flowArrived, lifeVars, flow>>

\* lines 421-423
Disc ==
    /\ EventEnabled
    /\ last' = Op("DISC", NoKey, 0, 0)
    /\ Disconnect(FALSE)
    /\ UNCHANGED <<isPaused, playlistEnd, notify, flushed, streamTrackUnique,
                   volume, startOffset, lastTimeStamp, lastPosition, index,
                   flowMarkers, flowPlayedTracks, flowTrackInfo, crashed,
                   flowArrived, isRunning, validPlayers, spirc, zeroConf,
                   clientConnected, rtpc, dpc, mutex, wpc, flow>>

\* line 430
SeekTooEarly == player = NoPlayer /\ streamers = <<>>

\* mutant: the newest streamer is taken instead of the oldest
SeekStreamerFront == IF player # NoPlayer THEN player ELSE Front(streamers)

\* line 436
SeekStreamer == IF player # NoPlayer THEN player ELSE Back(streamers)

\* line 438
SeekOffset(position) == -position

\* lines 455-463: the track information and duration of the re-loaded stream
SeekInfo(s) == IF flow THEN flowTrackInfo ELSE sessions[s].trackInfo
SeekDuration(s, position) == SeekInfo(s).duration + SeekOffset(position)

\* lines 448, 465-466
SeekCommands(s, position) ==
    <<SpotStop, SpotLoad(s, SeekDuration(s, position), -SeekOffset(position))>>
    \o (IF ~isPaused THEN <<SpotPlay>> ELSE <<>>)

\* lines 424-468
Seek(position) ==
    /\ EventEnabled
    /\ last' = Op("SEEK", NoKey, position, 0)
    /\ IF SeekTooEarly
       THEN /\ out' = <<>>
            /\ UNCHANGED ctlVars
       ELSE LET s == SeekStreamer
            IN  /\ streamers' = <<s>>
                /\ sessions' = Collect([sessions EXCEPT
                                          ![s].offset = SeekOffset(position),
                                          ![s].trackInfo = SeekInfo(s)],
                                       <<s>>, player)
                /\ flowMarkers' = IF flow THEN <<SeekDuration(s, position)>> ELSE <<>>
                /\ streamTrackUnique' = sessions[s].trackUnique
                /\ lastPosition' = 0
                /\ out' = SeekCommands(s, position)
                /\ UNCHANGED <<isPaused, playlistEnd, notify, flushed, volume,
                               startOffset, lastTimeStamp, index, player,
                               flowPlayedTracks, flowTrackInfo>>
    /\ UNCHANGED <<crashed, flowArrived, lifeVars, flow>>

\* lines 469-477
Depleted ==
    /\ EventEnabled
    /\ last' = Op("DEPLETED", NoKey, 0, 0)
    /\ playlistEnd' = TRUE
    /\ out' = IF streamers # <<>> THEN <<SetDraining(Front(streamers))>> ELSE <<>>
    /\ UNCHANGED <<isPaused, notify, flushed, streamTrackUnique, volume,
                   startOffset, lastTimeStamp, lastPosition, index, streamers,
                   sessions, player, flowMarkers, flowPlayedTracks, flowTrackInfo,
                   crashed, flowArrived, lifeVars, flow>>

\* lines 478-481
Volume(v) ==
    /\ EventEnabled
    /\ last' = Op("VOLUME", NoKey, v, 0)
    /\ volume' = v
    /\ out' = <<SpotVolume(v)>>
    /\ UNCHANGED <<isPaused, playlistEnd, notify, flushed, streamTrackUnique,
                   startOffset, lastTimeStamp, lastPosition, index, streamers,
                   sessions, player, flowMarkers, flowPlayedTracks, flowTrackInfo,
                   crashed, flowArrived, lifeVars, flow>>

\* lines 482-489
TrackInfoEvent(info) ==
    /\ EventEnabled
    /\ last' = Op("TRACK_INFO", info.trackId, info.duration, 0)
    /\ flowTrackInfo' = info
    /\ out' = <<>>
    /\ UNCHANGED <<isPaused, playlistEnd, notify, flushed, streamTrackUnique,
                   volume, startOffset, lastTimeStamp, lastPosition, index,
                   streamers, sessions, player, flowMarkers, flowPlayedTracks,
                   crashed, flowArrived, lifeVars, flow>>

(***************************************************************************)
(* notify (lines 496-596): the renderer bridge, called with the shared     *)
(* mutex locked.                                                           *)
(***************************************************************************)
NotifyEnabled == ~crashed /\ dpc # "freed"

\* lines 504-509
NotifyVolume(v) ==
    /\ NotifyEnabled
    /\ last' = Op("SHADOW_VOLUME", NoKey, v, 0)
    /\ out' = IF spirc THEN <<SetRemoteVolume(v)>> ELSE <<>>
    /\ volume' = v
    /\ UNCHANGED <<isPaused, playlistEnd, notify, flushed, streamTrackUnique,
                   startOffset, lastTimeStamp, lastPosition, index, streamers,
                   sessions, player, flowMarkers, flowPlayedTracks, flowTrackInfo,
                   crashed, flowArrived, lifeVars, flow>>

\* gettime_ms64(): the clock is read by SHADOW_TIME only, `elapsed` after
\* its previous reading
Now(elapsed) == lastTimeStamp + elapsed

\* lastPosition + now - lastTimeStamp
Predicted(now) == lastPosition + now - lastTimeStamp

\* mutant: the drift test includes the threshold
ResyncNeededInclusive(position, now) ==
    \/ lastPosition = 0
    \/ Predicted(now) >= position + ResyncThreshold
    \/ Predicted(now) + ResyncThreshold <= position

\* lines 521-523
ResyncNeeded(position, now) ==
    \/ lastPosition = 0
    \/ Predicted(now) > position + ResyncThreshold
    \/ Predicted(now) + ResyncThreshold < position

\* lines 530, 534
TimePosition(position, now) ==
    IF ResyncNeeded(position, now) THEN OrOne(position) ELSE position

\* lines 531-532
TimeUpdate(position, now) ==
    IF ResyncNeeded(position, now)
    THEN <<UpdatePositionMs(position - sessions[player].offset)>>
    ELSE <<>>

\* mutant: the boundary test lets a report consume the last marker
BoundaryReachedLast(pos) ==
    flow /\ Len(flowMarkers) > 0 /\ U32Geq(pos, Back(flowMarkers))

\* line 541
BoundaryReached(pos) ==
    flow /\ Len(flowMarkers) > 1 /\ U32Geq(pos, Back(flowMarkers))

\* mutant: the suppression latch is read the wrong way round
BoundaryNoticeInverted == IF notify THEN <<>> ELSE <<ReachedPlayback>>

\* lines 546-547 and 569-570
BoundaryNotice == IF notify THEN <<ReachedPlayback>> ELSE <<>>

\* lines 514-550
NotifyTime(position, elapsed) ==
    /\ NotifyEnabled /\ spirc
    /\ last' = Op("SHADOW_TIME", NoKey, position, 0)
    /\ IF player = NoPlayer
       THEN /\ elapsed = 0
            /\ out' = <<>>
            /\ UNCHANGED ctlVars
       ELSE LET now == Now(elapsed)
                pos == TimePosition(position, now)
            IN  /\ now <= MaxNow
                /\ lastPosition' = pos
                /\ lastTimeStamp' = now
                /\ IF BoundaryReached(pos)
                   THEN /\ flowMarkers' = PopBack(flowMarkers)
                        /\ out' = TimeUpdate(position, now) \o BoundaryNotice
                        /\ notify' = TRUE
                   ELSE /\ out' = TimeUpdate(position, now)
                        /\ UNCHANGED <<flowMarkers, notify>>
                /\ UNCHANGED <<isPaused, playlistEnd, flushed, streamTrackUnique,
                               volume, startOffset, index, streamers, sessions,
                               player, flowPlayedTracks, flowTrackInfo>>
    /\ UNCHANGED <<crashed, flowArrived, lifeVars, flow>>

\* line 555
TrackNothingToDo(url) == streamers = <<>> \/ (player # NoPlayer /\ url = player)

\* mutant: the older streamers are left in the queue
PopUntilKeepsOlder(q, url) == q

\* lines 558-562: streamers are popped from the back till one has the url
RECURSIVE PopUntil(_, _)
PopUntil(q, url) ==
    IF q = <<>> THEN q
    ELSE IF Back(q) = url THEN q
    ELSE PopUntil(PopBack(q), url)

\* lines 551-577
NotifyTrack(url) ==
    /\ NotifyEnabled /\ spirc
    /\ last' = Op("SHADOW_TRACK", NoKey, url, 0)
    /\ IF TrackNothingToDo(url)
       THEN /\ out' = <<>>
            /\ UNCHANGED ctlVars
       ELSE LET q == PopUntil(streamers, url)
            IN  IF q = <<>>
                THEN /\ streamers' = q
                     /\ sessions' = Collect(sessions, q, player)
                     /\ out' = <<>>
                     /\ UNCHANGED <<isPaused, playlistEnd, notify, flushed,
                                    streamTrackUnique, volume, startOffset,
                                    lastTimeStamp, lastPosition, index, player,
                                    flowMarkers, flowPlayedTracks, flowTrackInfo>>
                ELSE /\ streamers' = q
                     /\ player' = Back(q)
                     /\ sessions' = Collect(sessions, q, Back(q))
                     /\ lastPosition' = 0
                     /\ out' = BoundaryNotice \o <<UpdatePositionMs(0)>>
                     /\ notify' = TRUE
                     /\ UNCHANGED <<isPaused, playlistEnd, flushed,
                                    streamTrackUnique, volume, startOffset,
                                    lastTimeStamp, index, flowMarkers,
                                    flowPlayedTracks, flowTrackInfo>>
    /\ UNCHANGED <<crashed, flowArrived, lifeVars, flow>>

\* lines 578-583
NotifyPlayPause(paused) ==
    /\ NotifyEnabled /\ spirc
    /\ last' = Op("SHADOW_PLAY", NoKey, IF paused THEN 1 ELSE 0, 0)
    /\ out' = <<SetPause(paused)>>
    /\ UNCHANGED <<ctlVars, crashed, flowArrived, lifeVars, flow>>

\* line 585
NaturalEnd == player # NoPlayer /\ playlistEnd

\* lines 584-592
NotifyStop ==
    /\ NotifyEnabled /\ spirc
    /\ last' = Op("SHADOW_STOP", NoKey, 0, 0)
    /\ IF NaturalEnd
       THEN /\ playlistEnd' = FALSE
            /\ out' = <<AudioEnded>>
            /\ UNCHANGED <<state, streamers, sessions, player>>
       ELSE /\ Disconnect(TRUE)
            /\ UNCHANGED playlistEnd
    /\ UNCHANGED <<isPaused, notify, flushed, streamTrackUnique, volume,
                   startOffset, lastTimeStamp, lastPosition, index, flowMarkers,
                   flowPlayedTracks, flowTrackInfo, crashed, flowArrived,
                   isRunning, validPlayers, spirc, zeroConf, clientConnected,
                   rtpc, dpc, mutex, wpc, flow>>

(***************************************************************************)
(* runTask (lines 638-730), the destructor (lines 156-185) and the pairing *)
(* POST (lines 229-273).                                                   *)
(***************************************************************************)
LifeStep(op) ==
    /\ ~crashed
    /\ last' = Op(op, NoKey, 0, 0)
    /\ out' = <<>>
    /\ UNCHANGED <<ctlVars, crashed, flowArrived, flow, mutex, wpc>>

\* lines 639-655: the task takes runningMutex, sets isRunning and enables
\* ZeroConf when it was given no credentials
RunTaskStart(hasCredentials) ==
    /\ rtpc = "start" /\ dpc # "freed"
    /\ LifeStep("runTask")
    /\ isRunning' = TRUE
    /\ zeroConf' = ~hasCredentials
    /\ rtpc' = "outer"
    /\ UNCHANGED <<state, validPlayers, spirc, clientConnected, dpc>>

\* lines 639-640 on a controller whose destructor has returned: the thread
\* created by startTask (line 760) had not taken runningMutex when the
\* destructor took it (line 183).  The access to the released object is
\* undefined: the task dies or carries on with what the memory holds.
RunTaskStartFreed(hasCredentials, dies) ==
    /\ rtpc = "start" /\ dpc = "freed"
    /\ ~crashed
    /\ last' = Op("runTask", NoKey, 0, 0)
    /\ out' = <<>>
    /\ IF dies
       THEN /\ crashed' = TRUE
            /\ UNCHANGED <<isRunning, zeroConf, rtpc>>
       ELSE /\ crashed' = FALSE
            /\ isRunning' = TRUE
            /\ zeroConf' = ~hasCredentials
            /\ rtpc' = "outer"
    /\ UNCHANGED <<ctlVars, flowArrived, flow, mutex, wpc, state, validPlayers,
                   spirc, clientConnected, dpc>>

\* lines 658-699: one turn of the outer loop up to the creation of spirc
RunTaskLink(authenticated) ==
    /\ rtpc = "outer" /\ isRunning
    /\ zeroConf => clientConnected > 0
    /\ LifeStep("link")
    /\ clientConnected' = IF zeroConf THEN clientConnected - 1 ELSE clientConnected
    /\ state' = "LINKED"
    /\ IF authenticated
       THEN /\ spirc' = TRUE
            /\ rtpc' = "linked"
            /\ UNCHANGED zeroConf
       ELSE /\ zeroConf' = TRUE
            /\ UNCHANGED <<spirc, rtpc>>
    /\ UNCHANGED <<isRunning, validPlayers, dpc>>

\* line 709, the condition: handlePacket has returned and the task finds
\* state == DISCO outside of ZeroConf mode
RunTaskTest ==
    /\ rtpc = "linked" /\ state = "DISCO" /\ ~zeroConf
    /\ LifeStep("test")
    /\ rtpc' = "rewrite"
    /\ UNCHANGED <<state, isRunning, validPlayers, spirc, zeroConf,
                   clientConnected, dpc>>

\* line 709, the assignment: state = LINKED, and the loop goes on
RunTaskRewrite ==
    /\ rtpc = "rewrite"
    /\ LifeStep("rewrite")
    /\ state' = "LINKED"
    /\ rtpc' = "linked"
    /\ UNCHANGED <<isRunning, validPlayers, spirc, zeroConf, clientConnected,
                   dpc>>

\* line 708: the task enters handlePacket
RunTaskPacket ==
    /\ rtpc = "linked" /\ state = "LINKED"
    /\ LifeStep("packet")
    /\ rtpc' = "packet"
    /\ UNCHANGED <<state, isRunning, validPlayers, spirc, zeroConf,
                   clientConnected, dpc>>

\* line 708: handlePacket returns
RunTaskReturn ==
    /\ rtpc = "packet"
    /\ LifeStep("return")
    /\ rtpc' = "linked"
    /\ UNCHANGED <<state, isRunning, validPlayers, spirc, zeroConf,
                   clientConnected, dpc>>

\* lines 711-717: handlePacket throws
RunTaskError ==
    /\ rtpc = "linked" /\ state = "LINKED"
    /\ LifeStep("error")
    /\ state' = "DISCO"
    /\ spirc' = FALSE
    /\ rtpc' = "outer"
    /\ UNCHANGED <<isRunning, validPlayers, zeroConf, clientConnected, dpc>>

\* lines 707, 719-720: the linked loop is left and spirc is reset
RunTaskUnlink ==
    /\ rtpc = "linked" /\ state # "LINKED"
    /\ LifeStep("unlink")
    /\ spirc' = FALSE
    /\ rtpc' = "outer"
    /\ UNCHANGED <<state, isRunning, validPlayers, zeroConf, clientConnected, dpc>>

\* lines 658, 729: the outer loop is left and runningMutex released
RunTaskExit ==
    /\ rtpc = "outer" /\ ~isRunning
    /\ LifeStep("exit")
    /\ rtpc' = "done"
    /\ UNCHANGED <<state, isRunning, validPlayers, spirc, zeroConf,
                   clientConnected, dpc>>

\* line 261: the pairing POST gives the semaphore
PostHandler ==
    /\ zeroConf /\ rtpc \in {"outer", "linked", "packet", "rewrite"} /\ dpc = "alive"
    /\ clientConnected = 0
    /\ LifeStep("post")
    /\ clientConnected' = 1
    /\ UNCHANGED <<state, isRunning, validPlayers, spirc, zeroConf, rtpc, dpc>>

\* lines 159-162: the destructor removes `this` from the registry first
DestructorUnregister ==
    /\ dpc = "alive"
    /\ LifeStep("delete")
    /\ validPlayers' = FALSE
    /\ dpc' = "unregistered"
    /\ UNCHANGED <<state, isRunning, spirc, zeroConf, clientConnected, rtpc>>

\* lines 164-169
DestructorAbort ==
    /\ dpc = "unregistered"
    /\ LifeStep("abort")
    /\ state' = "ABORT"
    /\ isRunning' = FALSE
    /\ clientConnected' = 1
    /\ dpc' = "pending"
    /\ UNCHANGED <<validPlayers, spirc, zeroConf, rtpc>>

\* lines 172-185: the data callback is cleared, the servers are closed, the
\* destructor takes runningMutex and returns
DestructorJoin ==
    /\ dpc = "pending" /\ rtpc \in {"start", "done"}
    /\ LifeStep("freed")
    /\ dpc' = "freed"
    /\ UNCHANGED <<state, isRunning, validPlayers, spirc, zeroConf,
                   clientConnected, rtpc>>

(***************************************************************************)
(* playerMutex.  The steps below are the handlers at the grain of the lock:*)
(* writePCM is cut at its registry lookup (lines 195-201) and at its       *)
(* lock_guard (line 207); an event handler runs between the lock and the   *)
(* unlock of the event thread when the source takes the mutex for it, and  *)
(* on its own when the source does not.                                    *)
(***************************************************************************)
LockStep(op) ==
    /\ ~crashed
    /\ last' = Op(op, NoKey, 0, 0)
    /\ out' = <<>>
    /\ UNCHANGED <<ctlVars, crashed, flowArrived, flow, state, isRunning,
                   validPlayers, spirc, zeroConf, clientConnected, rtpc, dpc>>

\* lines 190-201: the fast checks and the registry lookup of a delivery
WritePCMLookup(bytes, key) ==
    /\ WritePCMEnabled
    /\ wpc = "idle" /\ mutex # "data"
    /\ IF FastReject \/ NotLive
       THEN /\ WritePCMReject(bytes, key)
            /\ UNCHANGED <<lifeVars, flow>>
       ELSE /\ LockStep("lookup")
            /\ wpc' = "checked"
            /\ UNCHANGED mutex

\* line 207: std::lock_guard lock(playerMutex)
WritePCMLock ==
    /\ wpc = "checked" /\ mutex = "free"
    /\ LockStep("lock")
    /\ mutex' = "data"
    /\ UNCHANGED wpc

\* lines 209-226, and the release of the lock_guard on return
WritePCMBody(bytes, key, fed, dies) ==
    /\ wpc = "checked" /\ mutex = "data"
    /\ ~crashed
    /\ WritePCMLocked(bytes, key, fed, dies)
    /\ mutex' = "free"
    /\ wpc' = "idle"
    /\ UNCHANGED <<state, isRunning, validPlayers, spirc, zeroConf,
                   clientConnected, rtpc, dpc, flow>>

\* lines 367, 397, 406: std::scoped_lock lock(playerMutex) of an event
\* handler
Acquire ==
    /\ mutex = "free"
    /\ EventEnabled
    /\ LockStep("lock")
    /\ mutex' = "event"
    /\ UNCHANGED wpc

\* the end of the scope of the lock
Release ==
    /\ mutex = "event"
    /\ LockStep("unlock")
    /\ mutex' = "free"
    /\ UNCHANGED wpc

\* lines 396-404, inside the scoped_lock of line 397
PlayPauseLocked(paused) == mutex = "event" /\ PlayPause(paused)

\* lines 405-413, inside the scoped_lock of line 406
FlushLocked == mutex = "event" /\ Flush

\* lines 357-394: the smart-flush branch runs before the scoped_lock of
\* line 367, the reset after it
PlaybackStartLocked(position, garbage, dies) ==
    /\ IF dies \/ SmartFlushAbsorbs(garbage)
       THEN mutex # "event"
       ELSE mutex = "event"
    /\ PlaybackStart(position, garbage, dies)

\* lines 421-423: disconnect() is called without the mutex
DiscUnlocked == mutex # "event" /\ Disc

\* lines 469-477: no lock is taken
DepletedUnlocked == mutex # "event" /\ Depleted

(***************************************************************************)
(* Specifications.  Spec is one protocol session of a controller started   *)
(* with credentials: queue, flush, seek and track handling.  SpecTime adds *)
(* the renderer's TIME reports and leaves out flush and disconnect.        *)
(* SpecLife is the whole lifecycle (pairing, relinking, destruction) with  *)
(* the handlers that do not depend on the track sequence.  SpecLock is the *)
(* session at the grain of playerMutex, with the start of the destructor.  *)
(* SpecDestroy is the lifecycle alone, each handlePacket call a step, with *)
(* the fairness of the task and of the destructor.                         *)
(***************************************************************************)
Next ==
    \/ RunTaskStart(TRUE)
    \/ RunTaskLink(TRUE)
    \/ \E b \in ByteCounts, k \in Keys, fed \in BOOLEAN, dies \in BOOLEAN :
          WritePCM(b, k, fed, dies)
    \/ \E p \in StartOffsets, g \in Keys \cup {NoKey}, dies \in BOOLEAN :
          PlaybackStart(p, g, dies)
    \/ \E b \in BOOLEAN : PlayPause(b)
    \/ Flush
    \/ Disc
    \/ \E p \in SeekPositions : Seek(p)
    \/ \E i \in TrackInfos : TrackInfoEvent(i)
    \/ \E u \in 0..(index - 1) : NotifyTrack(u)

Spec == Init /\ [][Next]_vars

NextTime ==
    \/ RunTaskStart(TRUE)
    \/ RunTaskLink(TRUE)
    \/ \E b \in ByteCounts, k \in Keys, fed \in BOOLEAN, dies \in BOOLEAN :
          WritePCM(b, k, fed, dies)
    \/ \E p \in StartOffsets : PlaybackStart(p, NoKey, FALSE)
    \/ \E b \in BOOLEAN : PlayPause(b)
    \/ \E p \in SeekPositions : Seek(p)
    \/ \E u \in 0..(index - 1) : NotifyTrack(u)
    \/ \E p \in Positions, e \in Elapsed : NotifyTime(p, e)

SpecTime == Init /\ [][NextTime]_vars

NextLife ==
    \/ \E c \in BOOLEAN : RunTaskStart(c)
    \/ \E c \in BOOLEAN, dies \in BOOLEAN : RunTaskStartFreed(c, dies)
    \/ \E a \in BOOLEAN : RunTaskLink(a)
    \/ RunTaskTest
    \/ RunTaskRewrite
    \/ RunTaskError
    \/ RunTaskUnlink
    \/ RunTaskExit
    \/ PostHandler
    \/ DestructorUnregister
    \/ DestructorAbort
    \/ DestructorJoin
    \/ \E b \in ByteCounts, k \in Keys, fed \in BOOLEAN, dies \in BOOLEAN :
          WritePCM(b, k, fed, dies)
    \/ \E b \in BOOLEAN : PlayPause(b)
    \/ NextPrev
    \/ Disc
    \/ Depleted
    \/ \E v \in Volumes : Volume(v)
    \/ \E v \in Volumes : NotifyVolume(v)
    \/ \E u \in 0..(index - 1) : NotifyTrack(u)
    \/ \E b \in BOOLEAN : NotifyPlayPause(b)
    \/ NotifyStop

SpecLife == Init /\ [][NextLife]_vars

NextLock ==
    \/ RunTaskStart(TRUE)
    \/ RunTaskLink(TRUE)
    \/ DestructorUnregister
    \/ DestructorAbort
    \/ \E b \in ByteCounts, k \in Keys : WritePCMLookup(b, k)
    \/ WritePCMLock
    \/ \E b \in ByteCounts, k \in Keys, fed \in BOOLEAN, dies \in BOOLEAN :
          WritePCMBody(b, k, fed, dies)
    \/ Acquire
    \/ Release
    \/ \E b \in BOOLEAN : PlayPauseLocked(b)
    \/ FlushLocked
    \/ \E p \in StartOffsets, g \in Keys \cup {NoKey}, dies \in BOOLEAN :
          PlaybackStartLocked(p, g, dies)
    \/ DiscUnlocked
    \/ DepletedUnlocked

SpecLock == Init /\ [][NextLock]_vars

NextDestroy ==
    \/ \E c \in BOOLEAN : RunTaskStart(c)
    \/ \E c \in BOOLEAN, dies \in BOOLEAN : RunTaskStartFreed(c, dies)
    \/ \E a \in BOOLEAN : RunTaskLink(a)
    \/ RunTaskPacket
    \/ RunTaskReturn
    \/ RunTaskTest
    \/ RunTaskRewrite
    \/ RunTaskError
    \/ RunTaskUnlink
    \/ RunTaskExit
    \/ PostHandler
    \/ DestructorUnregister
    \/ DestructorAbort
    \/ DestructorJoin
    \/ Disc
    \/ NotifyStop

\* Every connection attempt and every handlePacket call returns, and the
\* threads of the task and of the destructor are scheduled: each of their
\* steps is taken if it stays possible.  An exception, an event and a
\* pairing request may never come.
FairDestroy ==
    /\ WF_vars(\E c \in BOOLEAN : RunTaskStart(c))
    /\ WF_vars(\E a \in BOOLEAN : RunTaskLink(a))
    /\ WF_vars(RunTaskPacket)
    /\ WF_vars(RunTaskReturn)
    /\ WF_vars(RunTaskTest)
    /\ WF_vars(RunTaskRewrite)
    /\ WF_vars(RunTaskUnlink)
    /\ WF_vars(RunTaskExit)
    /\ WF_vars(DestructorAbort)
    /\ WF_vars(DestructorJoin)

SpecDestroy == Init /\ [][NextDestroy]_vars /\ FairDestroy

(***************************************************************************)
(* Properties.  A step of a handler is recognised by the value it leaves   *)
(* in `last`; the commands it issued are in `out`.                         *)
(***************************************************************************)
CountCmd(o, c) == Cardinality({i \in 1..Len(o) : o[i].c = c})
Issues(o, c) == \E i \in 1..Len(o) : o[i].c = c
IsSuffix(q, r) ==
    Len(q) <= Len(r) /\ SubSeq(r, Len(r) - Len(q) + 1, Len(r)) = q
AbsDiff(a, b) == IF a >= b THEN a - b ELSE b - a

\* C1: the streamer queue never holds more than two sessions; a third track
\* is not accepted while two sessions are queued.
C1_QueueAtMostTwo == Len(streamers) <= 2

\* C1 witness: two sessions are queued and the write of a third track has
\* just been turned down.
C1_Witness ==
    /\ Len(streamers) = 2
    /\ last.op = "writePCM" /\ last.ret = 0
    /\ last.key # streamTrackUnique
    /\ isRunning /\ ~isPaused /\ validPlayers

\* C2: a delivery made while the controller is paused, not running or no
\* longer in the registry of live controllers accepts zero bytes, issues
\* nothing and changes no field of the controller.
C2_RejectedDelivery ==
    [][ (last'.op = "writePCM" /\ (isPaused \/ ~isRunning \/ ~validPlayers))
        => /\ last'.ret = 0
           /\ out' = <<>>
           /\ UNCHANGED <<ctlVars, lifeVars, flow, crashed>> ]_vars

\* C2 witness: a running, unpaused controller with a queued session has
\* left the registry and a delivery has just been turned down.
C2_Witness ==
    /\ last.op = "writePCM" /\ last.ret = 0
    /\ ~validPlayers /\ isRunning /\ ~isPaused
    /\ streamers # <<>>

\* A PLAYBACK_START step taken with the flushed latch set and an active
\* session, and what absorbing / honouring it means.
C3_Case ==
    last'.op = "PLAYBACK_START" /\ flushed /\ player # NoPlayer /\ ~crashed'
C3_Absorbed ==
    /\ player' = player
    /\ streamers' = <<>>
    /\ streamTrackUnique' = sessions[player].trackUnique
    /\ ~Issues(out', "STOP") /\ ~Issues(out', "LOAD")
C3_Honoured ==
    /\ player' = NoPlayer
    /\ streamers' = <<>>
    /\ streamTrackUnique' = NoKey
    /\ Issues(out', "STOP")

\* C3 (as stated): a PLAYBACK_START that arrives while the flushed latch is
\* set and the tracked key equals the key of the active session is absorbed
\* (the active session is kept, nothing is stopped or loaded); when the
\* tracked key differs it is honoured as a full reset.
C3_AbsorbWhenSameKey ==
    [][ C3_Case => IF streamTrackUnique = sessions[player].trackUnique
                   THEN C3_Absorbed
                   ELSE C3_Honoured ]_vars

\* C3 (amended): a PLAYBACK_START that arrives while the flushed latch is
\* set and the tracked key differs from the key of the active session is
\* absorbed: the active session is kept, the queue is cleared, the tracked
\* key becomes the key of the active session and no STOP or LOAD is issued;
\* when the two keys are equal the event is honoured as a full reset.
C3_AbsorbWhenKeyDiffers ==
    [][ C3_Case => IF streamTrackUnique # sessions[player].trackUnique
                   THEN C3_Absorbed
                   ELSE C3_Honoured ]_vars

\* C3 witness: a PLAYBACK_START has just been absorbed.
C3_Witness ==
    /\ last.op = "PLAYBACK_START" /\ out = <<>>
    /\ flushed /\ player # NoPlayer /\ streamers = <<>>
    /\ streamTrackUnique = sessions[player].trackUnique

\* C4 (as stated): in flow mode, when a track arrives whose id equals the id
\* of a track that arrived earlier in the same flow sequence (the first
\* track, which created the session, included), the tracker is reset:
\* flowMarkers holds the duration of that track alone and flowPlayedTracks
\* holds its id alone.  The property is read on the arrivals that find the
\* session active, where trackHandler is defined to its end.
C4_LoopResetsTracker ==
    [][ ( /\ last'.op = "writePCM" /\ flow /\ streamers # <<>>
          /\ player # NoPlayer
          /\ streamTrackUnique # last'.key /\ streamTrackUnique' = last'.key
          /\ getTrackInfo(last'.key).trackId \in flowArrived )
        => /\ flowMarkers' = <<getTrackInfo(last'.key).duration>>
           /\ flowPlayedTracks' = {getTrackInfo(last'.key).trackId} ]_vars

\* What a SEEK step must leave behind for the session s it re-anchors.
C5_Reanchored(s, p) ==
    /\ s \in DOMAIN sessions'
    /\ sessions'[s].offset = -p
    /\ streamers' = <<s>>
    /\ streamTrackUnique' = sessions'[s].trackUnique
    /\ sessions'[s].trackUnique = sessions[s].trackUnique
    /\ lastPosition' = 0
    /\ out' = <<SpotStop,
                SpotLoad(s, sessions'[s].trackInfo.duration + sessions'[s].offset, p)>>
              \o (IF isPaused THEN <<>> ELSE <<SpotPlay>>)

\* C5: a SEEK to position p does nothing when there is neither an active
\* session nor a queued one; otherwise it re-anchors the active session (or
\* the oldest queued one): its offset becomes -p whatever it was, the queue
\* holds that session alone, the tracked key is that session's key, the
\* last known position is 0, and STOP, then LOAD with the track duration
\* plus the offset, then PLAY unless paused, are issued.
C5_SeekReanchors ==
    [][ last'.op = "SEEK"
        => IF player = NoPlayer /\ streamers = <<>>
           THEN out' = <<>> /\ UNCHANGED ctlVars
           ELSE C5_Reanchored(IF player # NoPlayer THEN player
                              ELSE streamers[Len(streamers)], last'.num) ]_vars

\* C5 witness: a SEEK has just re-anchored a session that was created with
\* the start offset of the stream.
C5_Witness ==
    /\ last.op = "SEEK" /\ Len(out) >= 2 /\ Len(streamers) = 1
    /\ sessions[streamers[1]].offset = -last.num
    /\ startOffset # last.num

\* A step that calls disconnect: the DISC event, or the renderer's STOP
\* when it is not the natural end of the playlist.
C6_Disconnects ==
    \/ last'.op = "DISC"
    \/ last'.op = "SHADOW_STOP" /\ ~(player # NoPlayer /\ playlistEnd)

\* C6: after a disconnect the queue is empty and there is no active
\* session; a second disconnect with the same argument right after the
\* first changes neither the queue, nor the active session, nor the
\* lifecycle state; a disconnect does not destroy the controller.
C6_DisconnectIdempotent ==
    [][ C6_Disconnects
        => /\ streamers' = <<>> /\ player' = NoPlayer
           /\ sessions' = << >>
           /\ (last.op = last'.op /\ out = <<SpotStop>>
               /\ streamers = <<>> /\ player = NoPlayer)
              => UNCHANGED <<streamers, player, state>>
           /\ UNCHANGED <<validPlayers, dpc, spirc, isRunning>> ]_vars

\* C6 witness: a DISC event has just disconnected a controller that had
\* created sessions.
C6_Witness ==
    /\ last.op = "DISC" /\ out = <<SpotStop>>
    /\ index > 0 /\ streamers = <<>> /\ player = NoPlayer
    /\ state = "DISCO" /\ validPlayers /\ dpc = "alive"

\* A TIME report handled with an active session; the clock reading of the
\* step is lastTimeStamp', the prediction follows from the previous pair.
C7_Case == last'.op = "SHADOW_TIME" /\ player # NoPlayer
C7_Predicted == lastPosition + (lastTimeStamp' - lastTimeStamp)
C7_Drifted ==
    lastPosition = 0 \/ AbsDiff(C7_Predicted, last'.num) > 5000

\* C7 (as stated): the reported position is adopted and pushed to the
\* protocol client exactly when the last known position is 0 or the
\* prediction differs from it by more than 5000 ms; otherwise it is not
\* adopted, the predicted value is kept as the controller's position and
\* no update is sent.
C7_KeepsPrediction ==
    [][ C7_Case
        => IF C7_Drifted
           THEN /\ lastPosition' \in {last'.num, OrOne(last'.num)}
                /\ Issues(out', "updatePositionMs")
           ELSE /\ lastPosition' = C7_Predicted
                /\ ~Issues(out', "updatePositionMs") ]_vars

\* C7 (amended): an update is pushed to the protocol client exactly when
\* the last known position is 0 or the prediction differs from the reported
\* position by more than 5000 ms; the value pushed is the reported position
\* minus the offset of the active session and the controller stores the
\* reported position with its lowest bit set.  Otherwise no update is sent
\* and the controller stores the reported position itself, not the
\* prediction.
C7_StoresReported ==
    [][ C7_Case
        => IF C7_Drifted
           THEN /\ lastPosition' = OrOne(last'.num)
                /\ CountCmd(out', "updatePositionMs") = 1
                /\ out'[1] = UpdatePositionMs(last'.num - sessions[player].offset)
           ELSE /\ lastPosition' = last'.num
                /\ ~Issues(out', "updatePositionMs") ]_vars

\* C7 witness: a TIME report within the threshold has just been handled:
\* nothing was pushed and the reported position is stored.
C7_Witness ==
    /\ last.op = "SHADOW_TIME" /\ player # NoPlayer
    /\ out = <<>>
    /\ lastPosition = last.num /\ lastPosition > 5000
    /\ lastTimeStamp > 0

\* Markers removed by a step, and the steps that reset the tracker.
C8_Removed ==
    IF Len(flowMarkers') < Len(flowMarkers)
    THEN Len(flowMarkers) - Len(flowMarkers') ELSE 0
C8_Reset ==
    \/ last'.op \in {"PLAYBACK_START", "SEEK"}
    \/ /\ last'.op = "writePCM"
       /\ getTrackInfo(last'.key).trackId \in flowPlayedTracks

\* C8 (as stated): in flow mode markers are removed from the back only, one
\* per TIME report, and apart from loop resets, full resets and seeks the
\* number of markers removed equals the number of boundary-reached
\* notifications sent to the protocol client.
C8_RemovedEqualsNotified ==
    [][ (flow /\ ~C8_Reset)
        => /\ CountCmd(out', "notifyAudioReachedPlayback") = C8_Removed
           /\ C8_Removed > 0 => flowMarkers' = PopBack(flowMarkers) ]_vars

\* C8 (amended): in flow mode, apart from loop resets, full resets and
\* seeks, a marker is removed only by a TIME report, from the back and one
\* per report, and the number of markers a TIME report removes equals the
\* number of boundary-reached notifications it sends; the TRACK report of a
\* session that becomes active sends one more boundary-reached notification
\* and removes no marker.
C8_TimeRemovesAndNotifies ==
    [][ (flow /\ ~C8_Reset)
        => /\ C8_Removed > 0 => /\ last'.op = "SHADOW_TIME"
                                /\ flowMarkers' = PopBack(flowMarkers)
           /\ C8_Removed = 0 => IsSuffix(flowMarkers, flowMarkers')
           /\ last'.op = "SHADOW_TIME"
              => CountCmd(out', "notifyAudioReachedPlayback") = C8_Removed
           /\ last'.op = "SHADOW_TRACK" => C8_Removed = 0
           /\ last'.op # "SHADOW_TIME" /\ last'.op # "SHADOW_TRACK"
              => ~Issues(out', "notifyAudioReachedPlayback") ]_vars

\* C8 witness: in flow mode a TIME report has just removed a marker and
\* sent the boundary-reached notification.
C8_Witness ==
    /\ flow /\ last.op = "SHADOW_TIME"
    /\ Issues(out, "notifyAudioReachedPlayback")
    /\ Len(flowMarkers) = 1

\* A delivery that passes the preconditions with a key other than the
\* tracked one.
C9_Case ==
    /\ last'.op = "writePCM"
    /\ isRunning /\ ~isPaused /\ validPlayers
    /\ last'.key # streamTrackUnique

\* Track-boundary handling ran once: either one session was created, queued
\* at the front and loaded once, or (flow mode, session present) one track
\* was appended to the flow tracker of the existing session.
C9_HandledOnce ==
    IF streamers = <<>> \/ ~flow
    THEN /\ index' = index + 1
         /\ streamers' = <<index>> \o streamers
         /\ sessions'[index].trackUnique = last'.key
         /\ CountCmd(out', "LOAD") = 1
    ELSE /\ index' = index /\ streamers' = streamers
         /\ ~Issues(out', "LOAD")
         /\ Len(flowMarkers') = Len(flowMarkers) + 1 \/ Len(flowMarkers') = 1
         /\ getTrackInfo(last'.key).trackId \in flowPlayedTracks'

\* C9: when such a delivery finds two sessions queued it is rejected with
\* zero bytes and neither the tracked key, nor the flushed latch, nor the
\* queue changes; otherwise the flushed latch is cleared, the tracked key
\* becomes the new key and track-boundary handling runs exactly once before
\* any byte is forwarded.
C9_NewKeyDelivery ==
    [][ C9_Case
        => IF Len(streamers) = 2
           THEN /\ last'.ret = 0 /\ out' = <<>>
                /\ UNCHANGED <<streamTrackUnique, flushed, streamers, sessions,
                               index, flowMarkers, flowPlayedTracks>>
           ELSE /\ flushed' = FALSE
                /\ streamTrackUnique' = last'.key
                /\ C9_HandledOnce
                /\ \A i \in 1..Len(out') :
                      out'[i].c = "feedPCMFrames" => i = Len(out') ]_vars

\* C9 witness: a delivery with a new key has just been accepted: the track
\* was loaded and then the bytes were forwarded.
C9_Witness ==
    /\ last.op = "writePCM" /\ last.key = streamTrackUnique /\ last.ret > 0
    /\ Len(out) >= 2
    /\ out[Len(out)].c = "feedPCMFrames"
    /\ out[Len(out) - 1].c \in {"LOAD", "PLAY"}
    /\ ~flushed

\* C10 (as stated): in flow mode the markers are cumulative end positions,
\* newest at the front: read from front to back the sequence never
\* increases.
C10_MarkersNonIncreasing ==
    flow => \A i \in 1..(Len(flowMarkers) - 1) :
                U32Geq(flowMarkers[i], flowMarkers[i + 1])

\* The active session is an element of the streamer queue.
C11_Queued == player = NoPlayer \/ player \in Range(streamers)

\* C11 (as stated): in every reachable state, if the active-session pointer
\* is set, the session it refers to is an element of the streamer queue.
C11_PlayerInQueue == C11_Queued

\* C11 (amended): the active-session pointer always refers to a live session
\* (the pointer shares its ownership), and the session is an element of the
\* queue except after one of two steps, the only ones that take it out of
\* the queue while leaving the pointer set: a PLAYBACK_START absorbed by
\* smart flush, which clears the queue and keeps the pointer, and a TRACK
\* report whose URL matches no queued session, which empties the queue and
\* returns through its guard.
C11_PlayerOutlivesQueueEntry ==
    /\ [](player # NoPlayer => player \in DOMAIN sessions)
    /\ [][ (C11_Queued /\ ~C11_Queued')
           => /\ player' = player /\ streamers' = <<>>
              /\ out' = <<>>
              /\ \/ last'.op = "PLAYBACK_START" /\ flushed
                 \/ last'.op = "SHADOW_TRACK" ]_vars

\* C11 witness: an absorbed PLAYBACK_START has left the active session
\* outside of the (empty) queue.
C11_Witness ==
    /\ last.op = "PLAYBACK_START" /\ out = <<>>
    /\ player # NoPlayer /\ player \in DOMAIN sessions
    /\ streamers = <<>>

\* The thread a handler runs on, from the operation it left in `last`.
C12_Thread(op) == IF op = "writePCM" THEN "data" ELSE "event"

\* A step that writes the queue, the tracked key, the playlist-end flag or
\* the flow tracker.
C12_Mutation ==
    \/ streamers' # streamers
    \/ streamTrackUnique' # streamTrackUnique
    \/ playlistEnd' # playlistEnd
    \/ flowMarkers' # flowMarkers
    \/ flowPlayedTracks' # flowPlayedTracks

\* C12 (as stated): every write of the streamer queue, the tracked key, the
\* playlist-end flag and the flow tracker is made by a thread that holds
\* playerMutex, whichever handler makes it.
C12_MutationUnderMutex ==
    [][ C12_Mutation => mutex = C12_Thread(last'.op) ]_vars

\* C14 (as stated): the part of a delivery that reads and writes the queue,
\* the tracked key, the flushed latch and the flow markers never runs once
\* the destructor has taken the controller out of the registry, even when
\* the delivery looked the registry up before the removal.
C14_NoDeliveryAfterRemoval ==
    [][ (mutex = "data" /\ mutex' = "free") => validPlayers ]_vars

\* C13 (as stated): the destructor returns only after the lifecycle task
\* has finished; runTask takes no step once the destructor has returned,
\* also when the destruction began before the task started to run.
C13_NoTaskStepAfterFree ==
    [][ dpc = "freed" => (rtpc = "done" /\ rtpc' = rtpc) ]_vars

\* The locked part of a delivery runs with a key that is not the tracked
\* one, in non-flow mode, while fewer than two sessions are queued.
C15_Case ==
    /\ mutex = "data" /\ mutex' = "free"
    /\ ~flow
    /\ last'.key # streamTrackUnique
    /\ Len(streamers) < 2

\* The commands of a track boundary: DRAINING for the previous front, LOAD
\* of the new session with the duration of the track plus the offset of the
\* session, PLAY unless paused.
C15_Commands ==
    (IF streamers # <<>> THEN <<SetDraining(Front(streamers))>> ELSE <<>>)
    \o <<SpotLoad(index,
                  getTrackInfo(last'.key).duration + sessions'[index].offset,
                  -sessions'[index].offset)>>
    \o (IF ~isPaused THEN <<SpotPlay>> ELSE <<>>)

\* C15: in non-flow mode every accepted new key marks the previous front
\* session DRAINING, creates exactly one session, with an index that no
\* earlier session had, at the front of the queue, and sends LOAD for it
\* with duration = track duration + offset, then PLAY if and only if the
\* controller is not paused.
C15_NonFlowBoundary ==
    [][ /\ index' >= index
        /\ \A i \in DOMAIN sessions' : i < index'
        /\ C15_Case
           => /\ index' = index + 1
              /\ streamers' = <<index>> \o streamers
              /\ DOMAIN sessions' = DOMAIN sessions \cup {index}
              /\ sessions'[index].trackUnique = last'.key
              /\ sessions'[index].offset =
                    (IF streamers = <<>> THEN -startOffset ELSE 0)
              /\ \/ out' = C15_Commands
                 \/ out' = C15_Commands \o <<Feed(index, last'.num)>> ]_vars

\* C15 witness: a second track has just been accepted in non-flow mode: the
\* first session was set DRAINING, the new one loaded and played.
C15_Witness ==
    /\ ~flow /\ last.op = "writePCM" /\ mutex = "free"
    /\ Len(streamers) = 2
    /\ Len(out) >= 3
    /\ out[1] = SetDraining(streamers[2])
    /\ out[2].c = "LOAD" /\ out[2].a = streamers[1]
    /\ out[3] = SpotPlay

\* A delivery in flow mode with a key that is not the tracked one is
\* accepted.
C16_Case ==
    /\ last'.op = "writePCM"
    /\ flow
    /\ isRunning /\ ~isPaused /\ validPlayers
    /\ last'.key # streamTrackUnique
    /\ Len(streamers) < 2

\* First session of a flow: one session is created and loaded, and the
\* marker pushed is the duration of the track, whatever the start offset.
C16_FirstSession ==
    /\ index' = index + 1
    /\ streamers' = <<index>>
    /\ DOMAIN sessions' = DOMAIN sessions \cup {index}
    /\ CountCmd(out', "LOAD") = 1
    /\ flowMarkers' = <<getTrackInfo(last'.key).duration>> \o flowMarkers

\* Subsequent track of a flow: no session, no renderer command, the queue
\* is left alone, the track id is recorded and, unless the playlist has
\* looped, the marker pushed is the front marker plus the duration.
C16_SubsequentTrack ==
    /\ index' = index
    /\ streamers' = streamers
    /\ DOMAIN sessions' = DOMAIN sessions
    /\ \A i \in 1..Len(out') : out'[i].c = "feedPCMFrames"
    /\ getTrackInfo(last'.key).trackId \in flowPlayedTracks'
    /\ getTrackInfo(last'.key).trackId \notin flowPlayedTracks
       => flowMarkers' = <<Front(flowMarkers) + getTrackInfo(last'.key).duration>>
                         \o flowMarkers

\* C16: in flow mode the first new key on an empty queue creates one
\* session and records a marker equal to the unadjusted track duration; a
\* later new key arriving while the queue is non-empty creates no session,
\* issues no renderer command, leaves the queue unchanged, records the track
\* id in the played-set and, when it is not a loop, pushes at the front a
\* marker equal to the previous front marker plus the new track's duration.
C16_FlowBoundary ==
    [][ C16_Case
        => IF streamers = <<>> THEN C16_FirstSession
                               ELSE C16_SubsequentTrack ]_vars

\* C16 witness: the second track of a flow has just been accepted while the
\* first session, which started 5000 ms into its track, is playing: no new
\* session, no LOAD, and the markers are the cumulative unadjusted durations.
C16_Witness ==
    /\ flow /\ last.op = "writePCM" /\ last.key = streamTrackUnique
    /\ Len(streamers) = 1 /\ player = streamers[1]
    /\ sessions[player].offset = -5000
    /\ ~Issues(out, "LOAD")
    /\ flowMarkers = <<380000, 200000>>
    /\ flowPlayedTracks = {"B"}

\* A PLAYBACK_START that smart flush does not absorb: the flushed latch is
\* clear, or the tracked key is the key of the active session.
C17_Case ==
    /\ last'.op = "PLAYBACK_START"
    /\ \/ ~flushed
       \/ /\ player # NoPlayer
          /\ streamTrackUnique = sessions[player].trackUnique

C18_UpTo(url) ==
    SubSeq(streamers, 1, CHOOSE i \in 1..Len(streamers) : streamers[i] = url)

\* C18: on a renderer TRACK(url), when the queue is empty or the URL is the
\* one of the active session nothing changes and nothing is notified; when
\* the URL is the one of a queued session that is not the active one, every
\* older session leaves the queue, the match becomes the active session and
\* stays queued, the last position is reset to 0, boundary-reached is
\* notified exactly once (or the suppression latch is consumed instead) and
\* position 0 is pushed to the protocol client.
C18_TrackNotification ==
    [][ last'.op = "SHADOW_TRACK"
        => IF streamers = <<>> \/ player = last'.num
           THEN /\ out' = <<>>
                /\ UNCHANGED <<ctlVars, lifeVars, flow>>
           ELSE last'.num \in Range(streamers)
                => /\ streamers' = C18_UpTo(last'.num)
                   /\ player' = last'.num
                   /\ Back(streamers') = player'
                   /\ lastPosition' = 0
                   /\ notify'
                   /\ out' = (IF notify THEN <<ReachedPlayback>> ELSE <<>>)
                             \o <<UpdatePositionMs(0)>>
                   /\ UNCHANGED <<streamTrackUnique, flushed, isPaused, index,
                                  flowMarkers, flowPlayedTracks>> ]_vars

\* C18 witness: the renderer has just started the second of two queued
\* sessions: the first one left the queue, the second one is active, and
\* boundary-reached and position 0 went to the protocol client.
C18_Witness ==
    /\ last.op = "SHADOW_TRACK" /\ last.num = 1
    /\ streamers = <<1>> /\ player = 1
    /\ DOMAIN sessions = {1}
    /\ lastPosition = 0
    /\ out = <<ReachedPlayback, UpdatePositionMs(0)>>

\* C19 (as stated): whenever a TRACK notification, whose URL the controller
\* sent to the renderer in an earlier LOAD, starts removing sessions (queue
\* not empty, URL not the active session's), a session with that URL is in
\* the queue: the handler never empties the queue nor leaves through its
\* guard.
C19_TrackFindsSession ==
    [][ (last'.op = "SHADOW_TRACK" /\ streamers # <<>> /\ player # last'.num)
        => /\ last'.num \in Range(streamers)
           /\ streamers' # <<>> ]_vars

\* C20 (as stated): the linked loop leaves on ABORT, or on DISCO in pairing
\* mode; in credential mode the write of LINKED at line 709 replaces a
\* DISCO and the loop goes on.  In particular that write never replaces an
\* ABORT set meanwhile by another thread.
C20_RewriteSparesAbort ==
    [][ last'.op = "rewrite" => (state = "DISCO" /\ ~zeroConf) ]_vars

\* A FLUSH sets the latch, sends nothing to the renderer and leaves the
\* queue and its sessions alone.
C21_Flush ==
    last'.op = "FLUSH"
    => /\ flushed'
       /\ out' = <<>>
       /\ UNCHANGED <<streamers, sessions, player>>

\* The latch is cleared only by a delivery with a new key that is accepted.
C21_Cleared ==
    (flushed /\ ~flushed')
    => /\ last'.op = "writePCM"
       /\ last'.key # streamTrackUnique
       /\ Len(streamers) < 2
       /\ streamTrackUnique' = last'.key

\* The delivery reports every byte as consumed and forwards none.
C21_Swallowed ==
    /\ last'.ret = last'.num
    /\ out' = <<>>
    /\ UNCHANGED <<flushed, streamers, streamTrackUnique>>

\* C21 (as stated): a FLUSH sets the flushed latch, issues no renderer
\* command and changes no queue entry; while the latch is set every
\* delivery carrying the tracked key returns the full byte count without
\* forwarding a byte; the latch is cleared only by an accepted delivery
\* with a new key.
C21_EveryDeliverySwallowed ==
    [][ /\ C21_Flush
        /\ C21_Cleared
        /\ (last'.op = "writePCM" /\ flushed /\ last'.key = streamTrackUnique)
           => C21_Swallowed ]_vars

\* C21 (amended): as stated for the deliveries that pass the checks on
\* entry (controller running, not paused, in the registry); a delivery
\* with the tracked key made while the controller is paused or not running
\* returns 0 and leaves the latch set.
C21_SmartFlushDelivery ==
    [][ /\ C21_Flush
        /\ C21_Cleared
        /\ (last'.op = "writePCM" /\ flushed /\ last'.key = streamTrackUnique)
           => IF isRunning /\ ~isPaused /\ validPlayers
              THEN C21_Swallowed
              ELSE /\ last'.ret = 0 /\ out' = <<>>
                   /\ UNCHANGED <<flushed, streamers, streamTrackUnique>> ]_vars

\* C21 witness: after a FLUSH a delivery of the tracked track, with its
\* session still queued, has just been reported as consumed and dropped.
C21_Witness ==
    /\ last.op = "writePCM" /\ last.key = streamTrackUnique
    /\ last.ret = last.num /\ last.num > 0
    /\ flushed /\ out = <<>>
    /\ streamers # <<>>
    /\ isRunning /\ ~isPaused

\* C22 (as stated): once the destructor has set state to ABORT and
\* isRunning to false and has given the pairing semaphore, the lifecycle
\* task leaves its linked loop and its outer loop and the destructor
\* returns, wherever in its loop the task was.
C22_DestructionTerminates == (dpc = "pending") ~> (dpc = "freed")

\* The state has just been set to ABORT, by disconnect(true) on an
\* unexpected renderer STOP or by the destructor.
C23_Aborted ==
    /\ state = "ABORT"
    /\ last.op \in {"SHADOW_STOP", "abort"}

\* C23 (as stated): once the state has become ABORT, through disconnect(true)
\* or through destruction, it never becomes LINKED again, so the lifecycle
\* task starts no new protocol session.
C23_AbortIsTerminal == [](C23_Aborted => [](state # "LINKED"))

\* The step reads through the active-session pointer: a PLAYBACK_START that
\* finds the flushed latch set (line 359), or a flow-mode delivery with a
\* new key that finds a session queued (line 340).
C24_DerefsPlayer ==
    \/ last'.op = "PLAYBACK_START" /\ flushed
    \/ /\ last'.op = "writePCM"
       /\ isRunning /\ ~isPaused /\ validPlayers
       /\ last'.key # streamTrackUnique
       /\ flow /\ Len(streamers) = 1

\* C24 (as stated): the active-session pointer is set whenever a
\* PLAYBACK_START arrives with the flushed latch set and whenever flow-mode
\* track handling takes the subsequent-track path.
C24_PlayerSetWhenRead ==
    [][ C24_DerefsPlayer => player # NoPlayer ]_vars

\* The session was created with the start position of the last
\* PLAYBACK_START as its offset.
C25_StartApplied(i) == startOffset # 0 /\ sessions[i].offset = -startOffset

\* C25 (as stated): the start position carried by a PLAYBACK_START goes to
\* one session at most.  startOffset is written by the full reset only,
\* which releases every session, so no two sessions alive together carry
\* it, whatever emptied the queue between their creations.
C25_StartAppliedOnce ==
    \A i, j \in DOMAIN sessions :
        (C25_StartApplied(i) /\ C25_StartApplied(j)) => i = j

\* In flow mode a non-empty queue has at least one marker.
C26_QueueHasMarker == (flow /\ streamers # <<>>) => flowMarkers # <<>>

\* A TIME report leaves at least one of the markers it found.
C26_TimeKeepsLast ==
    (last'.op = "SHADOW_TIME" /\ flowMarkers # <<>>) => flowMarkers' # <<>>

\* C26: in flow mode the marker sequence is non-empty whenever the streamer
\* queue is non-empty, and a TIME report never removes the last remaining
\* marker, so the subsequent-track path (line 331) and the TIME handler
\* (line 541) read the front and the oldest marker of a non-empty sequence.
C26_MarkersNeverRunOut == []C26_QueueHasMarker /\ [][C26_TimeKeepsLast]_vars

\* C26 witness: in flow mode, with a session queued, a TIME report has
\* arrived at or past the only marker left and has kept it.
C26_Witness ==
    /\ flow /\ streamers # <<>> /\ player # NoPlayer
    /\ last.op = "SHADOW_TIME"
    /\ Len(flowMarkers) = 1
    /\ U32Geq(lastPosition, Back(flowMarkers))


====
